---- MODULE Spec2Model ----
(***************************************************************************)
(* Model of backend/face_service/app.py: the Flask handler detect_faces,   *)
(* run by several request threads that share the upload directory and the  *)
(* module-level face_cascade.                                              *)
(*                                                                         *)
(* Bytes are 0 or 1.  A buffer encodes an image when it starts with the    *)
(* signature byte 1 and carries at least one payload byte; every payload   *)
(* byte is one pixel of a one-row image (0 = black, 1 = white).            *)
(* scaleFactor is kept in tenths (1.1 is 11).                              *)
(***************************************************************************)
EXTENDS Integers, Sequences, FiniteSets, TLC

NumRequests == 2

Requests == 1..NumRequests

(* ---------------- inputs a client can send ---------------- *)

Filenames == { <<"a">>, <<"/", "a">>, <<".", ".">>, <<"b">> }

Buffers == { <<>>, <<0>>, <<1, 0>>, <<1, 1>>, <<1, 1, 1>> }

NoFileRequest == [hasFile |-> FALSE, filename |-> <<>>, bytes |-> <<>>]

RequestInputs ==
  {NoFileRequest} \cup
  [hasFile : {TRUE}, filename : Filenames, bytes : Buffers]

(* ---------------- module-level state of app.py ---------------- *)

CASCADE_PATH == "haarcascade_frontalface_default.xml"

LoadedCascade == [path |-> CASCADE_PATH, loaded |-> TRUE]

UPLOAD_DIR == <<"uploads">>

(* ---------------- werkzeug.utils.secure_filename ---------------- *)

PathSeps == {"/"}

Whitespace == {" "}

AsciiSafe == {"a", "b", "_", ".", "-"}

SepToSpace(s) == [i \in 1..Len(s) |-> IF s[i] \in PathSeps THEN " " ELSE s[i]]

RECURSIVE WordLen(_)
WordLen(s) ==
  IF s = <<>> \/ Head(s) \in Whitespace THEN 0 ELSE 1 + WordLen(Tail(s))

RECURSIVE Split(_)
Split(s) ==
  IF s = <<>> THEN <<>>
  ELSE IF Head(s) \in Whitespace THEN Split(Tail(s))
  ELSE <<SubSeq(s, 1, WordLen(s))>> \o Split(SubSeq(s, WordLen(s) + 1, Len(s)))

RECURSIVE Join(_, _)
Join(sep, ws) ==
  IF ws = <<>> THEN <<>>
  ELSE IF Len(ws) = 1 THEN ws[1]
  ELSE ws[1] \o <<sep>> \o Join(sep, Tail(ws))

IsAsciiSafe(c) == c \in AsciiSafe

AsciiStrip(s) == SelectSeq(s, IsAsciiSafe)

RECURSIVE LStrip(_, _)
LStrip(s, chars) ==
  IF s # <<>> /\ Head(s) \in chars THEN LStrip(Tail(s), chars) ELSE s

RECURSIVE RStrip(_, _)
RStrip(s, chars) ==
  IF s # <<>> /\ s[Len(s)] \in chars
  THEN RStrip(SubSeq(s, 1, Len(s) - 1), chars) ELSE s

secure_filename(filename) ==
  RStrip(LStrip(AsciiStrip(Join("_", Split(SepToSpace(filename)))),
                {".", "_"}),
         {".", "_"})

(* ---------------- os.path.join and the upload directory ---------------- *)

PathJoin(dir, name) == dir \o <<"/">> \o name

\* "uploads/" names the directory itself: open(path, "wb") raises there
IsDirectoryPath(p) == p[Len(p)] = "/"

\* open(path, "wb"): the file exists afterwards and is empty
Truncate(files, p) ==
  [q \in (DOMAIN files) \cup {p} |-> IF q = p THEN <<>> ELSE files[q]]

\* a write of data at offset 0 through a descriptor of its own
WriteAtStart(old, data) ==
  data \o SubSeq(old, Len(data) + 1, Len(old))

(* ---------------- cv2.imread, cv2.cvtColor, detectMultiScale ------------ *)

None == [ok |-> FALSE]

IsValidImage(b) == Len(b) >= 2 /\ b[1] = 1

\* the decoded BGR image, or None
Imdecode(b) ==
  IF IsValidImage(b)
  THEN [ok |-> TRUE, width |-> Len(b) - 1, height |-> 1,
        pixels |-> [i \in 1..(Len(b) - 1) |->
                      <<255 * b[i + 1], 255 * b[i + 1], 255 * b[i + 1]>>]]
  ELSE None

imread(files, p) == IF p \in DOMAIN files THEN Imdecode(files[p]) ELSE None

\* COLOR_BGR2GRAY: luminance-weighted, rounded
cvtColor(img) ==
  [width |-> img.width, height |-> img.height,
   pixels |-> [i \in 1..Len(img.pixels) |->
                 (114 * img.pixels[i][1] + 587 * img.pixels[i][2]
                    + 299 * img.pixels[i][3] + 500) \div 1000]]

\* the call of line 29 written with scaleFactor=1.0
DetectParamsUnitScale == [scaleFactor |-> 10, minNeighbors |-> 5]

DetectParams == [scaleFactor |-> 11, minNeighbors |-> 5]

\* the rectangles the classifier emits: one unit window per white pixel
RECURSIVE ScanFrom(_, _)
ScanFrom(gray, i) ==
  IF i > Len(gray.pixels) THEN <<>>
  ELSE (IF gray.pixels[i] >= 128 THEN << <<i - 1, 0, 1, 1>> >> ELSE <<>>)
       \o ScanFrom(gray, i + 1)

detectMultiScale(cascade, gray, params) == ScanFrom(gray, 1)

(* ---------------- the responses of detect_faces ---------------- *)

NoResponse == [status |-> 0, body |-> [none |-> TRUE]]

NoFileResponse == [status |-> 400, body |-> [error |-> "no file"]]

InvalidImageResponse == [status |-> 400, body |-> [error |-> "invalid image"]]

\* what Flask answers when the view raises
UnhandledResponse == [status |-> 500, body |-> [exception |-> TRUE]]

BoxOf(f) == [x |-> f[1], y |-> f[2], w |-> f[3], h |-> f[4]]

\* count taken one past the last index instead of len(boxes)
SuccessResponseMiscount(faces) ==
  [status |-> 200,
   body |-> [boxes |-> [i \in 1..Len(faces) |-> BoxOf(faces[i])],
             count |-> Len(faces) + 1]]

SuccessResponse(faces) ==
  [status |-> 200,
   body |-> [boxes |-> [i \in 1..Len(faces) |-> BoxOf(faces[i])],
             count |-> Len(faces)]]

(* ---------------- state ---------------- *)

VARIABLES
  face_cascade,   \* the module-level classifier
  fs,             \* regular files of the file system: path -> content
  pc,             \* where each request thread stands in detect_faces
  req,            \* what each request carries
  path,           \* the local `path` of each request
  img,            \* the local `img` of each request
  calls,          \* the library calls each request has made, in order
  response        \* the response each request got

vars == <<face_cascade, fs, pc, req, path, img, calls, response>>

Init ==
  /\ face_cascade = LoadedCascade
  /\ fs = [p \in {} |-> <<>>]
  /\ pc = [r \in Requests |-> "idle"]
  /\ req = [r \in Requests |-> NoFileRequest]
  /\ path = [r \in Requests |-> <<>>]
  /\ img = [r \in Requests |-> None]
  /\ calls = [r \in Requests |-> <<>>]
  /\ response = [r \in Requests |-> NoResponse]

\* a POST /detect_faces arrives and a thread starts the view
Receive(r) ==
  /\ pc[r] = "idle"
  /\ \E in \in RequestInputs : req' = [req EXCEPT ![r] = in]
  /\ pc' = [pc EXCEPT ![r] = "check"]
  /\ UNCHANGED <<face_cascade, fs, path, img, calls, response>>

\* lines 16-17 without the early return
CheckFileFallsThrough(r) ==
  /\ pc[r] = "check"
  /\ pc' = [pc EXCEPT ![r] = "open"]
  /\ UNCHANGED <<face_cascade, fs, req, path, img, calls, response>>

\* lines 16-17
CheckFile(r) ==
  /\ pc[r] = "check"
  /\ IF ~req[r].hasFile
     THEN /\ response' = [response EXCEPT ![r] = NoFileResponse]
          /\ pc' = [pc EXCEPT ![r] = "done"]
     ELSE /\ pc' = [pc EXCEPT ![r] = "open"]
          /\ UNCHANGED response
  /\ UNCHANGED <<face_cascade, fs, req, path, img, calls>>

\* lines 18-21, up to the open(path, "wb") inside f.save
SaveOpen(r) ==
  /\ pc[r] = "open"
  /\ LET p == PathJoin(UPLOAD_DIR, secure_filename(req[r].filename)) IN
       /\ path' = [path EXCEPT ![r] = p]
       /\ IF IsDirectoryPath(p)
          THEN /\ response' = [response EXCEPT ![r] = UnhandledResponse]
               /\ pc' = [pc EXCEPT ![r] = "done"]
               /\ UNCHANGED <<fs, calls>>
          ELSE /\ fs' = Truncate(fs, p)
               /\ calls' = [calls EXCEPT ![r] = Append(@, [op |-> "open", path |-> p])]
               /\ pc' = [pc EXCEPT ![r] = "write"]
               /\ UNCHANGED response
  /\ UNCHANGED <<face_cascade, req, img>>

\* line 21, the copy of the upload into the opened file and its close
SaveWrite(r) ==
  /\ pc[r] = "write"
  /\ fs' = [fs EXCEPT ![path[r]] = WriteAtStart(@, req[r].bytes)]
  /\ calls' = [calls EXCEPT ![r] =
                 Append(@, [op |-> "write", path |-> path[r], data |-> req[r].bytes])]
  /\ pc' = [pc EXCEPT ![r] = "read"]
  /\ UNCHANGED <<face_cascade, req, path, img, response>>

\* lines 24-26
Imread(r) ==
  /\ pc[r] = "read"
  /\ LET m == imread(fs, path[r]) IN
       /\ img' = [img EXCEPT ![r] = m]
       /\ calls' = [calls EXCEPT ![r] =
                      Append(@, [op |-> "imread", path |-> path[r], data |-> fs[path[r]]])]
       /\ IF m = None
          THEN /\ response' = [response EXCEPT ![r] = InvalidImageResponse]
               /\ pc' = [pc EXCEPT ![r] = "done"]
          ELSE /\ pc' = [pc EXCEPT ![r] = "detect"]
               /\ UNCHANGED response
  /\ UNCHANGED <<face_cascade, fs, req, path>>

\* lines 28-33 with the classifier constructed again inside the view
DetectReloadsCascade(r) ==
  /\ pc[r] = "detect"
  /\ LET gray == cvtColor(img[r])
         faces == detectMultiScale(face_cascade, gray, DetectParams) IN
       /\ calls' = [calls EXCEPT ![r] =
                      Append(@, [op |-> "detectMultiScale", gray |-> gray,
                                 params |-> DetectParams])]
       /\ response' = [response EXCEPT ![r] = SuccessResponse(faces)]
  /\ face_cascade' = [path |-> "haarcascade_frontalface_alt.xml", loaded |-> TRUE]
  /\ pc' = [pc EXCEPT ![r] = "done"]
  /\ UNCHANGED <<fs, req, path, img>>

\* lines 28-33
Detect(r) ==
  /\ pc[r] = "detect"
  /\ LET gray == cvtColor(img[r])
         faces == detectMultiScale(face_cascade, gray, DetectParams) IN
       /\ calls' = [calls EXCEPT ![r] =
                      Append(@, [op |-> "detectMultiScale", gray |-> gray,
                                 params |-> DetectParams])]
       /\ response' = [response EXCEPT ![r] = SuccessResponse(faces)]
  /\ pc' = [pc EXCEPT ![r] = "done"]
  /\ UNCHANGED <<face_cascade, fs, req, path, img>>

Next ==
  \E r \in Requests :
    \/ Receive(r)
    \/ CheckFile(r)
    \/ SaveOpen(r)
    \/ SaveWrite(r)
    \/ Imread(r)
    \/ Detect(r)

Spec == Init /\ [][Next]_vars

(* ---------------- properties ---------------- *)

Done(r) == pc[r] = "done"

IsSuccess(resp) == resp.status = 200 /\ DOMAIN resp.body = {"boxes", "count"}

CallsOf(r, op) == {i \in 1..Len(calls[r]) : calls[r][i].op = op}

\* the response detect_faces gives when it decodes and detects on bytes b
ResponseOn(b) ==
  IF Imdecode(b) = None THEN InvalidImageResponse
  ELSE SuccessResponse(
         detectMultiScale(LoadedCascade, cvtColor(Imdecode(b)), DetectParams))

\* C1: under any interleaving, every request that gets to decode decodes its
\* own uploaded bytes, and its response is the one its own bytes determine,
\* also when two requests' filenames sanitize to the same name.
C1_OwnBytesOnly ==
  \A r \in Requests :
    /\ \A i \in CallsOf(r, "imread") : calls[r][i].data = req[r].bytes
    /\ (Done(r) /\ CallsOf(r, "imread") # {}) => response[r] = ResponseOn(req[r].bytes)

\* C2: every finished request ended in the missing-input error, the
\* invalid-image error, or a success response with both boxes and count;
\* none ended in an unhandled failure.
C2_ThreeOutcomes ==
  \A r \in Requests :
    Done(r) => \/ response[r] = NoFileResponse
               \/ response[r] = InvalidImageResponse
               \/ IsSuccess(response[r])

\* C3: a finished request whose uploaded bytes are not a valid image (the
\* empty buffer included) got {error: "invalid image"} with status 400 and
\* never invoked detection.
C3_InvalidBytesRejected ==
  \A r \in Requests :
    (Done(r) /\ req[r].hasFile /\ ~IsValidImage(req[r].bytes)) =>
      /\ response[r] = InvalidImageResponse
      /\ CallsOf(r, "detectMultiScale") = {}

\* C4: a request without a `file` part writes nothing to the upload
\* directory, invokes neither decoding nor detection, and is answered with
\* {error: "no file"} and status 400.
C4_NoFile ==
  \A r \in Requests :
    (pc[r] # "idle" /\ ~req[r].hasFile) =>
      /\ calls[r] = <<>>
      /\ pc[r] \in {"check", "done"}
      /\ Done(r) => response[r] = NoFileResponse
      /\ \A p \in DOMAIN fs : \E q \in Requests : q # r /\ path[q] = p

C4_Witness ==
  \E r \in Requests :
    /\ Done(r) /\ ~req[r].hasFile /\ response[r] = NoFileResponse
    /\ \E q \in Requests : Done(q) /\ req[q].hasFile /\ DOMAIN fs # {}

\* C5: in every success response, count is the number of elements of boxes.
C5_CountIsLen ==
  \A r \in Requests :
    (Done(r) /\ response[r].status = 200) =>
      response[r].body.count = Len(response[r].body.boxes)

C5_Witness ==
  /\ \E r \in Requests :
       Done(r) /\ response[r].status = 200 /\ Len(response[r].body.boxes) = 2
  /\ \E r \in Requests :
       Done(r) /\ response[r].status = 200 /\ response[r].body.boxes = <<>>

\* C7: two finished requests that uploaded identical bytes got identical
\* responses.
C7_SameBytesSameResponse ==
  \A r1, r2 \in Requests :
    (Done(r1) /\ Done(r2) /\ req[r1].hasFile /\ req[r2].hasFile
       /\ req[r1].bytes = req[r2].bytes) =>
      response[r1] = response[r2]

C9_CascadeUnchanged == face_cascade = LoadedCascade

C9_Witness ==
  /\ \E r \in Requests : Done(r) /\ IsSuccess(response[r])
  /\ \E r \in Requests : Done(r) /\ response[r].status = 400
  /\ face_cascade = LoadedCascade

\* C10: every request with a `file` part that is past f.save has written its
\* bytes to UPLOAD_DIR/<sanitized filename>, and that file is still there,
\* also after the response.
C10_UploadStored ==
  \A r \in Requests :
    (req[r].hasFile /\ pc[r] \in {"read", "detect", "done"}) =>
      /\ PathJoin(UPLOAD_DIR, secure_filename(req[r].filename)) \in DOMAIN fs
      /\ \E i \in CallsOf(r, "write") : calls[r][i].data = req[r].bytes

====
